---- MODULE Spec2Model ----
(***************************************************************************)
(* The patch graph engine of tinysynth (ModularSystem.h): the registry of  *)
(* named modules, the connection list, the per-module audio buffers and    *)
(* process(numFrames), which runs every module once per block.             *)
(*                                                                         *)
(* Spec builds and edits the graph (addModule, removeModule, connect,      *)
(* disconnect); SpecProcess also runs audio blocks between the edits;      *)
(* SpecThreads runs the blocks step by step on the audio thread while the  *)
(* control thread edits.                                                   *)
(*                                                                         *)
(* Next to the graph stands one node on its own (Oscillator.h and the      *)
(* oscillators of the other sources, GainModule): SpecParameters calls its *)
(* parameters, SpecOscillator runs blocks on a sine oscillator in each of  *)
(* its builds, SpecRace writes its parameters from the control thread      *)
(* while the audio thread reads them, SpecPhaseRace sets and resets its    *)
(* phase while the audio thread is inside process, SpecSampleRate prepares *)
(* and runs two oscillators side by side.  SpecOutputs runs blocks on a    *)
(* module with two outputs.  SpecPhasor steps the Phasor of AudioEngine.h  *)
(* and the table oscillator built on it; SpecSynthDef compiles SynthDefs.  *)
(*                                                                         *)
(* Samples are integers counted in tenths (3 stands for 0.3), gains are    *)
(* whole numbers.  The registry is an unordered_map: the order in which    *)
(* process walks it is unspecified and may change with every insertion.    *)
(* Connection is used by connect, disconnect and process with the fields   *)
(* fromModule, outputIndex, toModule, inputIndex.                          *)
(***************************************************************************)
EXTENDS Integers, Sequences, FiniteSets, TLC

\* ------------------------------------------------------------------ bounds
\* Longest connection list the model builds.
MaxConns == 3

\* Longest connection list of the graphs that blocks are run on.
MaxBlockConns == 2

\* Largest block length passed to process.
MaxFrames == 1

\* Largest sample value the model follows (in tenths).
MaxSample == 8

\* Largest phase, on either side of 0, the model follows (in eighths of a turn).
MaxPhase == 24

\* ------------------------------------------------------------------ inputs
Names == {"a", "b", "c"}

\* The names used where only the graph is edited.
EditNames == {"a", "b"}

\* The indices callers pass to connect and disconnect where only the graph
\* is edited: every module of the model has one output, none has two inputs.
OutputIndices == {0}

InputIndices == {0, 1}

FrameCounts == 0 .. MaxFrames

Samples == 0 .. MaxSample

\* What a read through an unbound (null) input pointer may yield.
JunkSamples == {0, MaxSample}

\* A generator that writes the same sample to every frame of its one output
\* and has no inputs.
ConstSource(v) == [kind |-> "Source", value |-> v, gain |-> 1]

\* GainModule: one input, one output, output = input * m_gain.
GainModule(g) == [kind |-> "Gain", value |-> 0, gain |-> g]

getNumInputs(module) == IF module.kind = "Gain" THEN 1 ELSE 0

\* A generator with two output slots and no inputs: it writes its value to
\* every frame of output 0, then its value + 1 to every frame of output 1.
TwoOutputs(v) == [kind |-> "Source2", value |-> v, gain |-> 1]

getNumOutputs(module) == IF module.kind = "Source2" THEN 2 ELSE 1

Connection(from, out, to, in) ==
    [fromModule |-> from, outputIndex |-> out, toModule |-> to, inputIndex |-> in]

\* The modules callers add where only the graph is edited.
EditModules == EditNames \X {ConstSource(3), GainModule(2)}

\* The modules callers add where blocks are run: a is a generator or a gain,
\* b a generator, c a gain.
BlockModules ==
    {<<"a", ConstSource(3)>>, <<"a", GainModule(2)>>,
     <<"b", ConstSource(4)>>, <<"c", GainModule(2)>>}

\* The connections callers ask for where only the graph is edited.
EditWirings ==
    {Connection(f, o, t, i) : f \in EditNames, o \in OutputIndices,
                              t \in EditNames, i \in InputIndices}

\* The connections callers ask for where blocks are run: two producers into
\* the same slot of c, and the way back from c to a (a cycle when a has an
\* input slot, a slot out of range when a has none).
BlockWirings ==
    {Connection("a", 0, "c", 0), Connection("b", 0, "c", 0), Connection("c", 0, "a", 0)}

NoName == "-"

NoConnection == Connection(NoName, 0, NoName, 0)

NoModule == [kind |-> "-", value |-> 0, gain |-> 0]

\* ------------------------------------------------------------------- state
VARIABLES
    m_modules,      \* registry: registered name -> module
    order,          \* iteration order of the registry (m_modules.begin() .. end())
    m_connections,  \* connection list, in insertion order
    m_audioBuffers, \* one sample buffer per registry position
    callLog,        \* module->process calls made by the latest API call, in call order
    crashed,        \* the process stopped on undefined behaviour
    lastCall,       \* the latest API call, its arguments and its outcome
    audio,          \* the audio thread's position inside ModularSystem::process
    osc,            \* one node on its own: its kind and its parameter fields
    build,          \* how that node's code was compiled
    oscCall,        \* the latest call on that node, its arguments and its outcome
    ctl,            \* the control thread's parameter write in flight
    oscRun,         \* the audio thread's position inside an oscillator's process
    m_sampleRate,   \* AudioEngine::m_sampleRate, the one rate of the process
    bank,           \* several oscillators side by side: name -> its fields
    bankCall,       \* the latest call on one of them
    phasor,         \* the fields of a Phasor
    phasorCall,     \* the latest call on the phasor or the table oscillator around it
    m_ugens,        \* the UGen records of a SynthDef
    compiled        \* the latest SynthDefCompiler::compile, its steps and its outcome

graphVars == <<m_modules, order, m_connections, m_audioBuffers, callLog, crashed, lastCall>>

nodeVars == <<osc, build, oscCall, ctl>>

\* The engine-wide sample rate and the oscillators that share it.
rateVars == <<m_sampleRate, bank, bankCall>>

phasorVars == <<phasor, phasorCall>>

synthVars == <<m_ugens, compiled>>

\* What stands next to the graph and the one node.
unitVars == <<oscRun, rateVars, phasorVars, synthVars>>

vars == <<graphVars, audio, nodeVars, unitVars>>

Registered == DOMAIN m_modules

\* modulesBefore, before: the registry and the connection list as they were
\* when the call was made.
\* ub: the undefined behaviour the call ran into.
Call(op, name, module, conn, numFrames, ub, err) ==
    [op |-> op, name |-> name, module |-> module, conn |-> conn,
     numFrames |-> numFrames, modulesBefore |-> m_modules, before |-> m_connections,
     ub |-> ub, err |-> err]

\* -------------------------------------------------------- sequence helpers
\* std::find_if: index of the first element equal to x, 0 for end().
FindIf(s, x) ==
    IF \E i \in 1 .. Len(s) : s[i] = x
    THEN CHOOSE i \in 1 .. Len(s) : s[i] = x /\ \A j \in 1 .. (i - 1) : s[j] # x
    ELSE 0

\* vector::erase(it)
Erase(s, i) == SubSeq(s, 1, i - 1) \o SubSeq(s, i + 1, Len(s))

\* All orders in which the elements of set S can be iterated.
Orderings(S) ==
    {s \in [1 .. Cardinality(S) -> S] : \A i, j \in 1 .. Cardinality(S) : s[i] = s[j] => i = j}

\* ------------------------------------------------------------ a node alone
\* Phases are counted in eighths of a turn: 8 stands for 2 pi, 4 for pi.
twoPiConstant == 8

piConstant == 4

\* The sample rate the engine has been prepared with, in frames per unit of
\* time.  Frequencies are counted in the same unit, so that frequency *
\* twoPiConstant / sampleRate is a whole number of eighths.
SampleRate == 8

\* Pulse widths are counted in quarters: 4 stands for 1.0, 2 for 0.5.
One == 4

\* GainModule::MAX_GAIN
MAX_GAIN == 10

\* A node as its constructor leaves it.  The fields a kind does not have
\* keep these values for ever.  440 Hz is far below one eighth of a turn
\* per frame; it is modelled as the smallest frequency of the model.
NewNode(kind) ==
    [kind |-> kind, m_frequency |-> 1, m_amplitude |-> 1, m_phase |-> 0,
     m_pulseWidth |-> One \div 2, m_gain |-> 1]

\* The control thread outside a parameter write.
CtlIdle == [pc |-> "idle", field |-> NoName, value |-> 0]

\* An input slot: std::nullopt, or a buffer of samples.
NullOpt == [bound |-> FALSE, samples |-> <<>>]

Buffer(samples) == [bound |-> TRUE, samples |-> samples]

\* The inputs vector handed to an oscillator: frequency, amplitude and
\* pulse-width modulation.
Inputs(freqMod, ampMod, pwMod) == [freqMod |-> freqMod, ampMod |-> ampMod, pwMod |-> pwMod]

\* inputs, ub: the inputs of a process call, the undefined behaviour it ran into.
\* outputs: the number of output buffers it was handed.
\* observed, inFlight: the parameters a process call read, and the write of
\* the control thread that was under way when it read them.
\* output, phases, widths: the samples a process call wrote, the phases it
\* stored step by step and the pulse widths it used.
\* freqs, amps: the frequency and the amplitude it used, frame by frame.
\* stored: the values the control thread stored into m_phase while the
\* process call was running.
NoOscCall ==
    [op |-> "new", name |-> NoName, value |-> 0, numFrames |-> 0,
     inputs |-> Inputs(NullOpt, NullOpt, NullOpt), outputs |-> 0,
     before |-> NewNode("SineOsc"), err |-> "none", result |-> 0, ub |-> {},
     output |-> <<>>, phases |-> <<>>, widths |-> <<>>, freqs |-> <<>>, amps |-> <<>>,
     observed |-> NewNode("SineOsc"), inFlight |-> CtlIdle, stored |-> {}]

\* The audio thread outside an oscillator's process.
\* seen: the fields process loaded when it started; stored: the values the
\* control thread has stored into m_phase since.
RunIdle == [pc |-> "idle", numFrames |-> 0, seen |-> NewNode("SineOsc"), stored |-> {}]

\* The oscillators that stand side by side.
BankNames == {"x", "y"}

NewBank == [name \in BankNames |-> NewNode("SineOsc")]

\* sampleRate: the argument of prepare, or the rate a process call used.
\* prepared, preparedOn: the argument of the latest prepare on any of the
\* oscillators, and the oscillator it was called on.
NoBankCall ==
    [op |-> "new", name |-> NoName, sampleRate |-> SampleRate, numFrames |-> 0,
     prepared |-> SampleRate, preparedOn |-> NoName, before |-> NewBank]

\* Phasor(): phase_(0), phase_inc_(0), freq_factor(0)
NewPhasor == [phase_ |-> 0, phase_inc_ |-> 0, freq_factor |-> 0]

\* in, out: the control samples a perform was handed and the phases it
\* wrote, in the order of the frames.  indices: what the table oscillator
\* indexed its table with, frame by frame.
NoPhasorCall ==
    [op |-> "new", mode |-> NoName, n |-> 0, in |-> NullOpt, value |-> 0,
     before |-> NewPhasor, out |-> <<>>, indices |-> <<>>, ub |-> {}, err |-> "none"]

\* No compile has been asked for.
\* ugens: the records compile was handed.  module: the functions of the
\* llvm::Module it returned.  linked: what compileUGen had built and linked
\* into the module under construction when the call ended.
NoCompile == [op |-> "new", ugens |-> <<>>, err |-> "none", module |-> <<>>, linked |-> <<>>]

\* What stands next to the graph and the one node, untouched.
UnitInit ==
    /\ oscRun = RunIdle
    /\ m_sampleRate = SampleRate
    /\ bank = NewBank
    /\ bankCall = NoBankCall
    /\ phasor = NewPhasor
    /\ phasorCall = NoPhasorCall
    /\ m_ugens = <<>>
    /\ compiled = NoCompile

\* ------------------------------------------------------------------- edits
\* The audio thread outside process.
AudioIdle ==
    [pc |-> "idle", i |-> 0, numFrames |-> 0, modulesAtStart |-> <<>>,
     connectionsAtStart |-> <<>>]

GraphInit ==
    /\ m_modules = <<>>
    /\ order = <<>>
    /\ m_connections = <<>>
    /\ m_audioBuffers = <<>>
    /\ callLog = <<>>
    /\ crashed = FALSE
    /\ lastCall = [op |-> "new", name |-> NoName, module |-> NoModule, conn |-> NoConnection,
                   numFrames |-> 0, modulesBefore |-> <<>>, before |-> <<>>,
                   ub |-> {}, err |-> "none"]

\* A graph under construction, next to a sine oscillator nobody calls.
Init ==
    /\ GraphInit
    /\ audio = AudioIdle
    /\ osc = NewNode("SineOsc")
    /\ build = [simd |-> "scalar", ndebug |-> FALSE]
    /\ oscCall = NoOscCall
    /\ ctl = CtlIdle
    /\ UnitInit

\* addModule without its duplicate test: m_modules[name] = ... overwrites.
AddModuleNeverThrows(name) == FALSE

\* addModule's test m_modules.find(name) != m_modules.end()
AddModuleThrows(name) == name \in Registered

\* The registry after m_modules[name] = std::move(module).
InsertModule(name, module) ==
    [n \in Registered \cup {name} |-> IF n = name THEN module ELSE m_modules[n]]

addModule(name, module) ==
    /\ ~crashed
    /\ IF AddModuleThrows(name)
       THEN /\ lastCall' = Call("addModule", name, module, NoConnection, 0, {}, "DuplicateName")
            /\ UNCHANGED <<m_modules, order>>
       ELSE /\ m_modules' = InsertModule(name, module)
            \* an insertion may rehash: the new iteration order is unspecified
            /\ order' \in Orderings(DOMAIN m_modules')
            /\ lastCall' = Call("addModule", name, module, NoConnection, 0, {}, "none")
    /\ callLog' = <<>>
    /\ UNCHANGED <<m_connections, m_audioBuffers, crashed>>

\* removeModule's test it == m_modules.end()
RemoveModuleThrows(name) == name \notin Registered

\* The predicate with && in place of ||.
ReferencesBothEnds(conn, name) == conn.fromModule = name /\ conn.toModule = name

\* The remove_if predicate of removeModule.
References(conn, name) == conn.fromModule = name \/ conn.toModule = name

\* A cascade that only looks at the source end of a connection.
CascadeRemoveSources(conns, name) ==
    LET Kept(conn) == conn.fromModule # name IN SelectSeq(conns, Kept)

\* The connection list after removeModule's erase(remove_if(...)): the
\* connections the predicate rejects, in their order.
CascadeRemove(conns, name) ==
    LET Kept(conn) == ~References(conn, name) IN SelectSeq(conns, Kept)

removeModule(name) ==
    /\ ~crashed
    /\ IF RemoveModuleThrows(name)
       THEN /\ lastCall' = Call("removeModule", name, NoModule, NoConnection, 0, {}, "UnknownModule")
            /\ UNCHANGED <<m_modules, order, m_connections>>
       ELSE /\ m_connections' = CascadeRemove(m_connections, name)
            /\ m_modules' = [n \in Registered \ {name} |-> m_modules[n]]
            \* erase keeps the relative order of the remaining elements
            /\ order' = LET Other(n) == n # name IN SelectSeq(order, Other)
            /\ lastCall' = Call("removeModule", name, NoModule, NoConnection, 0, {}, "none")
    /\ callLog' = <<>>
    /\ UNCHANGED <<m_audioBuffers, crashed>>

\* connect without the test of toModule.
ConnectThrowsOnSource(fromModule, toModule) == fromModule \notin Registered

\* connect's two find(...) == end() tests.
ConnectThrows(fromModule, toModule) ==
    fromModule \notin Registered \/ toModule \notin Registered

connect(fromModule, outputIndex, toModule, inputIndex) ==
    LET conn == Connection(fromModule, outputIndex, toModule, inputIndex) IN
    /\ ~crashed
    /\ IF ConnectThrows(fromModule, toModule)
       THEN /\ lastCall' = Call("connect", NoName, NoModule, conn, 0, {}, "UnknownModule")
            /\ UNCHANGED m_connections
       ELSE /\ m_connections' = Append(m_connections, conn)
            /\ lastCall' = Call("connect", NoName, NoModule, conn, 0, {}, "none")
    /\ callLog' = <<>>
    /\ UNCHANGED <<m_modules, order, m_audioBuffers, crashed>>

\* erase(begin()) in place of erase(it).
EraseFront(conns, conn) ==
    LET it == FindIf(conns, conn) IN
    IF it # 0 THEN Erase(conns, 1) ELSE conns

\* The connection list after disconnect's find_if and erase.
EraseFirstMatch(conns, conn) ==
    LET it == FindIf(conns, conn) IN
    IF it # 0 THEN Erase(conns, it) ELSE conns

disconnect(fromModule, outputIndex, toModule, inputIndex) ==
    LET conn == Connection(fromModule, outputIndex, toModule, inputIndex) IN
    /\ ~crashed
    /\ m_connections' = EraseFirstMatch(m_connections, conn)
    /\ lastCall' = Call("disconnect", NoName, NoModule, conn, 0, {}, "none")
    /\ callLog' = <<>>
    /\ UNCHANGED <<m_modules, order, m_audioBuffers, crashed>>

\* ----------------------------------------------------------------- process
\* vector::resize(n): keeps the first n elements, appends `fill` as needed.
Resize(s, n, fill) ==
    IF n <= Len(s) THEN SubSeq(s, 1, n) ELSE s \o [k \in 1 .. (n - Len(s)) |-> fill]

\* m_audioBuffers after the two resize loops at the top of process.
ResizeBuffers(bufs, numModules, numFrames) ==
    LET outer == Resize(bufs, numModules, <<>>) IN
    [k \in 1 .. numModules |-> Resize(outer[k], numFrames, 0)]

\* std::distance(m_modules.begin(), m_modules.find(name)), counted from 1.
BufferIndex(name) == CHOOSE k \in 1 .. Len(order) : order[k] = name

Unbound == 0

RECURSIVE SetUpConnections(_, _, _)
\* The inputs vector of module `name` after the loop over m_connections:
\* slot -> index of the producer's buffer, Unbound for std::nullopt.
SetUpConnections(conns, name, inputs) ==
    IF conns = <<>> THEN inputs
    ELSE LET conn == Head(conns) IN
         IF /\ conn.toModule = name
            /\ conn.fromModule \in Registered
            /\ conn.inputIndex < Len(inputs)
         THEN SetUpConnections(Tail(conns), name,
                  [inputs EXCEPT ![conn.inputIndex + 1] = BufferIndex(conn.fromModule)])
         ELSE SetUpConnections(Tail(conns), name, inputs)

PrepareInputs(name) ==
    SetUpConnections(m_connections, name,
                     [k \in 1 .. getNumInputs(m_modules[name]) |-> Unbound])

\* inputs[conn.inputIndex] = ... with inputIndex at or beyond inputs.size().
OutOfRangeSlot(name) ==
    \E k \in 1 .. Len(m_connections) :
        /\ m_connections[k].toModule = name
        /\ m_connections[k].fromModule \in Registered
        /\ m_connections[k].inputIndex >= getNumInputs(m_modules[name])

\* GainModule::process reads inputs[0] without testing that it is bound.
NullInput(name, numFrames) ==
    /\ m_modules[name].kind = "Gain"
    /\ numFrames > 0
    /\ PrepareInputs(name)[1] = Unbound

UndefinedBehaviour(numFrames) ==
    (IF \E n \in Registered : OutOfRangeSlot(n) THEN {"out-of-range slot"} ELSE {})
    \cup (IF \E n \in Registered : NullInput(n, numFrames) THEN {"null input"} ELSE {})

\* The generator's process: every frame of the output gets its value.
SourceProcess(module, own, numFrames) ==
    IF numFrames = 0 THEN own ELSE [f \in 1 .. numFrames |-> module.value]

\* GainModule::process and SIMDOperations::multiply: output[i] = input[i] * m_gain.
GainProcess(module, inputs, bufs, own, numFrames, junk) ==
    IF Len(inputs) = 0 \/ numFrames = 0 THEN own
    ELSE IF inputs[1] = Unbound THEN [f \in 1 .. numFrames |-> junk]
    ELSE [f \in 1 .. numFrames |-> bufs[inputs[1]][f] * module.gain]

\* What the module wrote to each of its output slots, slot by slot; a
\* module that returns at once wrote what its buffer held.
Produced(module, inputs, bufs, own, numFrames, junk) ==
    IF module.kind = "Gain"
    THEN <<GainProcess(module, inputs, bufs, own, numFrames, junk)>>
    ELSE IF module.kind = "Source2"
    THEN <<SourceProcess(module, own, numFrames),
           SourceProcess([module EXCEPT !.value = @ + 1], own, numFrames)>>
    ELSE <<SourceProcess(module, own, numFrames)>>

\* module->process(inputs, outputs, numFrames): the module's buffer
\* afterwards.  Every entry of outputs is m_audioBuffers[moduleIndex].data(),
\* the buffer holds what was written last.
ModuleProcess(module, inputs, bufs, own, numFrames, junk) ==
    LET produced == Produced(module, inputs, bufs, own, numFrames, junk)
    IN produced[Len(produced)]

\* What a module is handed on its input slots when it is called.
Received(inputs, bufs) ==
    [k \in 1 .. Len(inputs) |->
        IF inputs[k] = Unbound THEN [bound |-> FALSE, samples |-> <<>>]
        ELSE [bound |-> TRUE, samples |-> bufs[inputs[k]]]]

RECURSIVE ProcessLoop(_, _, _, _, _)
\* The loop over m_modules of process, from registry position i on.
ProcessLoop(i, bufs, log, numFrames, junk) ==
    IF i > Len(order) THEN [bufs |-> bufs, log |-> log]
    ELSE LET name == order[i]
             inputs == PrepareInputs(name)
             moduleIndex == BufferIndex(name)
             out == ModuleProcess(m_modules[name], inputs, bufs, bufs[moduleIndex],
                                  numFrames, junk)
         IN ProcessLoop(i + 1, [bufs EXCEPT ![moduleIndex] = out],
                        Append(log, [name |-> name, received |-> Received(inputs, bufs),
                                     produced |-> Produced(m_modules[name], inputs, bufs,
                                                           bufs[moduleIndex], numFrames,
                                                           junk)]),
                        numFrames, junk)

process(numFrames) ==
    LET resized == ResizeBuffers(m_audioBuffers, Len(order), numFrames)
        ub == UndefinedBehaviour(numFrames)
    IN
    /\ ~crashed
    /\ \/ \E junk \in (IF ub = {} THEN {0} ELSE JunkSamples) :
            LET result == ProcessLoop(1, resized, <<>>, numFrames, junk) IN
            /\ \A k \in 1 .. Len(result.bufs) : \A f \in 1 .. numFrames :
                   result.bufs[k][f] <= MaxSample
            /\ m_audioBuffers' = result.bufs
            /\ callLog' = result.log
            /\ lastCall' = Call("process", NoName, NoModule, NoConnection, numFrames, ub, "none")
            /\ UNCHANGED crashed
       \/ /\ ub # {}
          /\ crashed' = TRUE
          /\ callLog' = <<>>
          /\ lastCall' = Call("process", NoName, NoModule, NoConnection, numFrames, ub, "crash")
          /\ UNCHANGED m_audioBuffers
    /\ UNCHANGED <<m_modules, order, m_connections>>

\* ------------------------------------------- process on the audio thread
\* The top of process: the two resize loops, then the loop over m_modules
\* starts.  Nothing in ModularSystem keeps the control thread's calls out
\* while the loop runs.
processBegin(numFrames) ==
    /\ ~crashed
    /\ audio.pc = "idle"
    /\ m_audioBuffers' = ResizeBuffers(m_audioBuffers, Len(order), numFrames)
    /\ audio' = [pc |-> "loop", i |-> 1, numFrames |-> numFrames,
                 modulesAtStart |-> m_modules, connectionsAtStart |-> m_connections]
    /\ callLog' = <<>>
    /\ lastCall' = Call("process", NoName, NoModule, NoConnection, numFrames, {}, "none")
    /\ UNCHANGED <<m_modules, order, m_connections, crashed, nodeVars, unitVars>>

\* The registry or the connection list was written while the loop reads
\* them: a data race, the iterator of the loop may be invalid.
Raced ==
    m_modules # audio.modulesAtStart \/ m_connections # audio.connectionsAtStart

\* One iteration of the loop over m_modules.  On undefined behaviour the
\* iteration crashes, or goes on with what it finds (a stray write beyond
\* m_audioBuffers is not followed).
processModule ==
    LET name == order[audio.i]
        sized == Len(order) <= Len(m_audioBuffers)
        ub == \/ Raced
              \/ ~sized
              \/ OutOfRangeSlot(name)
              \/ NullInput(name, audio.numFrames)
    IN
    /\ ~crashed
    /\ audio.pc = "loop"
    /\ audio.i <= Len(order)
    /\ \/ /\ sized
          /\ \E junk \in (IF ub THEN JunkSamples ELSE {0}) :
                LET moduleIndex == BufferIndex(name)
                    out == ModuleProcess(m_modules[name], PrepareInputs(name), m_audioBuffers,
                                         m_audioBuffers[moduleIndex], audio.numFrames, junk)
                IN /\ \A f \in 1 .. Len(out) : out[f] <= MaxSample
                   /\ m_audioBuffers' = [m_audioBuffers EXCEPT ![moduleIndex] = out]
          /\ audio' = [audio EXCEPT !.i = @ + 1]
          /\ UNCHANGED crashed
       \/ /\ ~sized
          /\ audio' = [audio EXCEPT !.i = @ + 1]
          /\ UNCHANGED <<m_audioBuffers, crashed>>
       \/ /\ ub
          /\ crashed' = TRUE
          /\ UNCHANGED <<m_audioBuffers, audio>>
    /\ UNCHANGED <<m_modules, order, m_connections, callLog, lastCall, nodeVars, unitVars>>

\* The loop has reached m_modules.end(): process returns.
processEnd ==
    /\ ~crashed
    /\ audio.pc = "loop"
    /\ audio.i > Len(order)
    /\ audio' = AudioIdle
    /\ UNCHANGED <<graphVars, nodeVars, unitVars>>

\* ----------------------------------------------------- parameters of a node
\* SineOsc is the sine oscillator of Oscillator.h with its AVX, SSE and
\* scalar loops, SIMDSineOsc the one derived from SIMDOscillator; PulseOsc
\* is the pulse oscillator with its own processSIMD, SIMDPulseOsc the one
\* derived from SIMDOscillator.
Kinds == {"SineOsc", "SIMDSineOsc", "PulseOsc", "SIMDPulseOsc", "GainModule"}

IsOscillator(kind) == kind # "GainModule"

HasPulseWidth(kind) == kind \in {"PulseOsc", "SIMDPulseOsc"}

getParameterNames(kind) ==
    IF kind = "GainModule" THEN {"Gain"}
    ELSE {"frequency", "amplitude", "phase"}
         \cup (IF HasPulseWidth(kind) THEN {"pulseWidth"} ELSE {})

\* The names callers pass: the parameters of every kind and one that no
\* kind has.
ParameterNames == {"frequency", "amplitude", "phase", "pulseWidth", "Gain", "cutoff"}

\* The values callers pass for a parameter: outside its domain (a frequency
\* of 0, a negative amplitude, a pulse width or a gain below and above the
\* range) and inside it.
FrequencyValues == {0, 2}

AmplitudeValues == {0 - 1, 0}

PulseWidthValues == {0 - 1, 1, One + 1}

GainValues == {0 - 1, 2, MAX_GAIN + 1}

ValuesOf(name) ==
    IF name = "frequency" THEN FrequencyValues
    ELSE IF name = "amplitude" THEN AmplitudeValues
    ELSE IF name = "pulseWidth" THEN PulseWidthValues
    ELSE IF name = "Gain" THEN GainValues
    ELSE {2}

\* A clamp that has lost its upper bound.
clampBelow(value, lo, hi) == IF value < lo THEN lo ELSE value

\* std::clamp(value, lo, hi)
clamp(value, lo, hi) == IF value < lo THEN lo ELSE IF hi < value THEN hi ELSE value

\* assert(condition): compiled out with NDEBUG, abort() otherwise.
AssertAborts(condition) == ~condition /\ ~build.ndebug

Returned(node, result) == [node |-> node, err |-> "none", result |-> result]

Thrown(node, err) == [node |-> node, err |-> err, result |-> 0]

SetFrequency(node, frequency) ==
    IF AssertAborts(frequency > 0) THEN Thrown(node, "abort")
    ELSE Returned([node EXCEPT !.m_frequency = frequency], 0)

SetAmplitude(node, amplitude) ==
    IF AssertAborts(amplitude >= 0) THEN Thrown(node, "abort")
    ELSE Returned([node EXCEPT !.m_amplitude = amplitude], 0)

SetPhase(node, phase) == Returned([node EXCEPT !.m_phase = phase], 0)

SetPulseWidth(node, pulseWidth) ==
    Returned([node EXCEPT !.m_pulseWidth = clamp(pulseWidth, 0, One)], 0)

\* Oscillator::setParameter; the throw is std::invalid_argument.
OscillatorSetParameter(node, name, value) ==
    IF name = "frequency" THEN SetFrequency(node, value)
    ELSE IF name = "amplitude" THEN SetAmplitude(node, value)
    ELSE IF name = "phase" THEN SetPhase(node, value)
    ELSE Thrown(node, "InvalidParameter")

OscillatorGetParameter(node, name) ==
    IF name = "frequency" THEN Returned(node, node.m_frequency)
    ELSE IF name = "amplitude" THEN Returned(node, node.m_amplitude)
    ELSE IF name = "phase" THEN Returned(node, node.m_phase)
    ELSE Thrown(node, "InvalidParameter")

PulseSetParameter(node, name, value) ==
    IF name = "pulseWidth" THEN SetPulseWidth(node, value)
    ELSE OscillatorSetParameter(node, name, value)

PulseGetParameter(node, name) ==
    IF name = "pulseWidth" THEN Returned(node, node.m_pulseWidth)
    ELSE OscillatorGetParameter(node, name)

GainSetParameter(node, name, value) ==
    IF name = "Gain" THEN Returned([node EXCEPT !.m_gain = clamp(value, 0, MAX_GAIN)], 0)
    ELSE Returned(node, 0)

GainGetParameter(node, name) ==
    IF name = "Gain" THEN Returned(node, node.m_gain) ELSE Returned(node, 0)

\* The virtual call node->setParameter(name, value).
SetParameter(node, name, value) ==
    IF node.kind = "GainModule" THEN GainSetParameter(node, name, value)
    ELSE IF HasPulseWidth(node.kind) THEN PulseSetParameter(node, name, value)
    ELSE OscillatorSetParameter(node, name, value)

GetParameter(node, name) ==
    IF node.kind = "GainModule" THEN GainGetParameter(node, name)
    ELSE IF HasPulseWidth(node.kind) THEN PulseGetParameter(node, name)
    ELSE OscillatorGetParameter(node, name)

\* The process has not been ended by a failed assert or by a crash.
Alive == oscCall.err \notin {"abort", "crash"}

\* The call op(name, value) on the node came out as outcome.
NodeCall(op, name, value, outcome) ==
    /\ Alive
    /\ osc' = outcome.node
    /\ oscCall' = [NoOscCall EXCEPT !.op = op, !.name = name, !.value = value,
                                      !.before = osc, !.err = outcome.err,
                                      !.result = outcome.result]
    /\ UNCHANGED <<graphVars, audio, unitVars, build, ctl>>

setFrequency(frequency) ==
    /\ IsOscillator(osc.kind)
    /\ NodeCall("setFrequency", NoName, frequency, SetFrequency(osc, frequency))

setAmplitude(amplitude) ==
    /\ IsOscillator(osc.kind)
    /\ NodeCall("setAmplitude", NoName, amplitude, SetAmplitude(osc, amplitude))

setPhase(phase) ==
    /\ IsOscillator(osc.kind)
    /\ NodeCall("setPhase", NoName, phase, SetPhase(osc, phase))

setPulseWidth(pulseWidth) ==
    /\ HasPulseWidth(osc.kind)
    /\ NodeCall("setPulseWidth", NoName, pulseWidth, SetPulseWidth(osc, pulseWidth))

setParameter(name, value) ==
    NodeCall("setParameter", name, value, SetParameter(osc, name, value))

getParameter(name) ==
    NodeCall("getParameter", name, 0, GetParameter(osc, name))

\* ------------------------------------------------- process of an oscillator
\* The lanes of the llvm::SmallVector loops.
vectorSize == 8

\* The range of unsigned int.  The model counts modulo 2^30 where the code
\* counts modulo 2^32 (a checker's integers end below 2^32): a difference
\* below zero wraps to a value far above every block length just the same.
UIntRange == 2 ^ 30

\* std::sin at the eight phases of the model, in tenths.
SinTable == <<0, 7, 10, 7, 0, 0 - 7, 0 - 10, 0 - 7>>

Sin(phase) == SinTable[(phase % twoPiConstant) + 1]

\* (*mod)[index]; a read behind the end of the buffer yields junk.
ModAt(mod, index, junk) ==
    IF index < Len(mod.samples) THEN mod.samples[index + 1] ELSE junk

\* frequency * twoPiConstant / sampleRate, with the rate process loads from
\* AudioEngine::getSampleRate().
PhaseIncrement(frequency) == (frequency * twoPiConstant) \div m_sampleRate

wrapPhaseScalar(phase) ==
    IF phase >= twoPiConstant THEN phase - twoPiConstant ELSE phase

\* What a process call has done so far: the phase it carries, the samples
\* written, the phases stored after each step, the pulse widths used and
\* the frequencies and amplitudes used.
StartRun(node) ==
    [phase |-> node.m_phase, output |-> <<>>, phases |-> <<>>, widths |-> <<>>,
     freqs |-> <<>>, amps |-> <<>>]

\* One iteration of the scalar loop of Oscillator.h, at frame i.
ScalarStep(run, node, inputs, i) ==
    LET currentFrequency ==
            node.m_frequency + (IF inputs.freqMod.bound THEN ModAt(inputs.freqMod, i, 0) ELSE 0)
        currentAmplitude ==
            node.m_amplitude * (IF inputs.ampMod.bound THEN ModAt(inputs.ampMod, i, 0) ELSE 1)
        phase == wrapPhaseScalar(run.phase + PhaseIncrement(currentFrequency))
    IN [run EXCEPT !.phase = phase,
                   !.output = Append(@, currentAmplitude * Sin(run.phase)),
                   !.phases = Append(@, phase),
                   !.freqs = Append(@, currentFrequency),
                   !.amps = Append(@, currentAmplitude)]

RECURSIVE processRemainingScalar(_, _, _, _, _)
processRemainingScalar(run, node, inputs, start, numFrames) ==
    IF start >= numFrames THEN run
    ELSE processRemainingScalar(ScalarStep(run, node, inputs, start), node, inputs,
                                start + 1, numFrames)

\* processScalar runs the same loop from frame 0.
processScalar(run, node, inputs, numFrames) ==
    processRemainingScalar(run, node, inputs, 0, numFrames)

\* One iteration of the AVX or SSE loop of Oscillator.h, at frames i ..
\* i + width - 1: every lane starts from the same phase, the phase kept is
\* the one of the last lane.
VectorStep(run, node, inputs, i, width) ==
    LET freqVec == [j \in 0 .. width - 1 |->
            node.m_frequency
                + (IF inputs.freqMod.bound THEN ModAt(inputs.freqMod, i + j, 0) ELSE 0)]
        ampVec == [j \in 0 .. width - 1 |->
            node.m_amplitude
                * (IF inputs.ampMod.bound THEN ModAt(inputs.ampMod, i + j, 0) ELSE 1)]
        phaseVec == [j \in 0 .. width - 1 |->
            wrapPhaseScalar(run.phase + PhaseIncrement(freqVec[j]))]
    IN [run EXCEPT !.phase = phaseVec[width - 1],
                   !.output = @ \o [k \in 1 .. width |-> ampVec[k - 1] * Sin(run.phase)],
                   !.phases = Append(@, phaseVec[width - 1]),
                   !.freqs = @ \o [k \in 1 .. width |-> freqVec[k - 1]],
                   !.amps = @ \o [k \in 1 .. width |-> ampVec[k - 1]]]

RECURSIVE processSIMD_lanes(_, _, _, _, _, _)
\* processSIMD_AVX (width 8) and processSIMD_SSE (width 4): the loop
\* for (; i < numFrames - (width - 1); i += width) in unsigned arithmetic,
\* then the remaining frames one by one.
processSIMD_lanes(run, node, inputs, i, numFrames, width) ==
    IF i < (numFrames - (width - 1)) % UIntRange
    THEN processSIMD_lanes(VectorStep(run, node, inputs, i, width), node, inputs,
                           i + width, numFrames, width)
    ELSE processRemainingScalar(run, node, inputs, i, numFrames)

\* The lanes of the SmallVector loops before the first group.
StartLanes(node) ==
    [phaseVec |-> [j \in 0 .. vectorSize - 1 |-> node.m_phase],
     freqVec |-> [j \in 0 .. vectorSize - 1 |-> node.m_frequency],
     ampVec |-> [j \in 0 .. vectorSize - 1 |-> node.m_amplitude],
     pulseWidthVec |-> [j \in 0 .. vectorSize - 1 |-> node.m_pulseWidth]]

\* The lanes after one group of vectorSize frames starting at frame i: the
\* modulation is added to what the lanes hold, then the phases advance.
\* Only PulseOsc::processSIMD reads the pulse-width input.
GroupLanes(lanes, node, inputs, i, junk) ==
    LET freqVec == [j \in 0 .. vectorSize - 1 |->
            IF inputs.freqMod.bound
            THEN lanes.freqVec[j] + ModAt(inputs.freqMod, i + j, junk)
            ELSE lanes.freqVec[j]]
        ampVec == [j \in 0 .. vectorSize - 1 |->
            IF inputs.ampMod.bound
            THEN lanes.ampVec[j] * ModAt(inputs.ampMod, i + j, junk)
            ELSE lanes.ampVec[j]]
        pulseWidthVec == [j \in 0 .. vectorSize - 1 |->
            IF inputs.pwMod.bound /\ node.kind = "PulseOsc"
            THEN clamp(node.m_pulseWidth + ModAt(inputs.pwMod, i + j, junk), 0, One)
            ELSE lanes.pulseWidthVec[j]]
    IN [phaseVec |-> [j \in 0 .. vectorSize - 1 |->
                         wrapPhaseScalar(lanes.phaseVec[j] + PhaseIncrement(freqVec[j]))],
        freqVec |-> freqVec, ampVec |-> ampVec, pulseWidthVec |-> pulseWidthVec]

RECURSIVE processSIMD(_, _, _, _, _, _, _)
\* The loop for (i = 0; i < numFrames; i += vectorSize) of the SmallVector
\* oscillators; the phase kept is phaseVec.back().  The samples of the two
\* pulse oscillators are not followed, only the widths they are made from.
processSIMD(run, lanes, node, inputs, i, numFrames, junk) ==
    IF i >= numFrames THEN [run EXCEPT !.phase = lanes.phaseVec[vectorSize - 1]]
    ELSE LET next == GroupLanes(lanes, node, inputs, i, junk)
             stored == {j \in 0 .. vectorSize - 1 : i + j < numFrames}
             count == Cardinality(stored)
         IN processSIMD(
                [run EXCEPT
                    !.output = IF HasPulseWidth(node.kind) THEN @
                               ELSE @ \o [k \in 1 .. count |->
                                              next.ampVec[k - 1] * Sin(lanes.phaseVec[k - 1])],
                    !.phases = Append(@, next.phaseVec[vectorSize - 1]),
                    !.widths = IF HasPulseWidth(node.kind)
                               THEN @ \o [k \in 1 .. count |-> next.pulseWidthVec[k - 1]]
                               ELSE @,
                    !.freqs = @ \o [k \in 1 .. count |-> next.freqVec[k - 1]],
                    !.amps = @ \o [k \in 1 .. count |-> next.ampVec[k - 1]]],
                next, node, inputs, i + vectorSize, numFrames, junk)

\* The number of lanes of the loop the build selects in Oscillator.h.
Lanes == IF build.simd = "AVX" THEN 8 ELSE IF build.simd = "SSE" THEN 4 ELSE 1

\* numFrames - (Lanes - 1) wraps around: the vector loop runs on behind the
\* end of the output buffer.
LoopOverruns(node, numFrames) ==
    node.kind = "SineOsc" /\ numFrames < Lanes - 1

\* The SmallVector loops read vectorSize samples of a bound modulation
\* input in every group, also behind its numFrames samples.
ReadsBehindInput(node, inputs, numFrames) ==
    /\ node.kind # "SineOsc"
    /\ numFrames % vectorSize # 0
    /\ \/ inputs.freqMod.bound
       \/ inputs.ampMod.bound
       \/ inputs.pwMod.bound /\ node.kind = "PulseOsc"

NodeUndefinedBehaviour(node, inputs, numFrames) ==
    (IF LoopOverruns(node, numFrames) THEN {"loop overrun"} ELSE {})
    \cup (IF ReadsBehindInput(node, inputs, numFrames) THEN {"read behind input"} ELSE {})

\* What the loops of process leave: the run of the node's process.  SinOsc
\* is the DSP of the JACK client, whose process_audio is the scalar loop.
ProcessRun(node, inputs, numFrames, junk) ==
    IF node.kind = "SinOsc" THEN processScalar(StartRun(node), node, inputs, numFrames)
    ELSE IF node.kind = "SineOsc"
    THEN IF Lanes = 1 THEN processScalar(StartRun(node), node, inputs, numFrames)
         ELSE processSIMD_lanes(StartRun(node), node, inputs, 0, numFrames, Lanes)
    ELSE processSIMD(StartRun(node), StartLanes(node), node, inputs, 0, numFrames, junk)

\* What an overrun loop may leave behind.
JunkRun(numFrames, junk) ==
    [phase |-> junk, output |-> [f \in 1 .. numFrames |-> junk], phases |-> <<junk>>,
     widths |-> <<>>, freqs |-> <<>>, amps |-> <<>>]

ProcessCall(inputs, outputs, numFrames, ub, err, run) ==
    [NoOscCall EXCEPT !.op = "process", !.numFrames = numFrames, !.inputs = inputs,
                      !.outputs = outputs,
                      !.before = osc, !.err = err, !.ub = ub, !.output = run.output,
                      !.phases = run.phases, !.widths = run.widths, !.freqs = run.freqs,
                      !.amps = run.amps, !.observed = osc]

\* if (numFrames == 0) return; -- without the test for an empty outputs.
ReturnsAtOnceForNoFrames(outputs, numFrames) == numFrames = 0

\* if (outputs.empty() || numFrames == 0) return;
ReturnsAtOnce(outputs, numFrames) == outputs = 0 \/ numFrames = 0

\* Oscillator::process(inputs, outputs, numFrames), outputs counting the
\* buffers handed in: returns at once for no buffer and for no frames, else
\* reads the phase, runs the loops on outputs[0] and stores the phase they
\* leave.
nodeProcess(inputs, outputs, numFrames) ==
    LET ub == NodeUndefinedBehaviour(osc, inputs, numFrames) IN
    /\ Alive
    /\ IsOscillator(osc.kind)
    /\ \/ /\ ReturnsAtOnce(outputs, numFrames)
          /\ oscCall' = ProcessCall(inputs, outputs, numFrames, {}, "none", StartRun(osc))
          /\ UNCHANGED osc
       \/ /\ ~ReturnsAtOnce(outputs, numFrames)
          /\ numFrames > 0
          /\ \E junk \in (IF ub = {} THEN {0} ELSE JunkSamples) :
                LET run == IF LoopOverruns(osc, numFrames) THEN JunkRun(numFrames, junk)
                           ELSE ProcessRun(osc, inputs, numFrames, junk)
                IN /\ run.phase \in (0 - MaxPhase) .. MaxPhase
                   /\ osc' = [osc EXCEPT !.m_phase = run.phase]
                   /\ oscCall' = ProcessCall(inputs, outputs, numFrames, ub, "none", run)
       \/ /\ ~ReturnsAtOnce(outputs, numFrames)
          /\ numFrames > 0
          /\ ub # {}
          /\ oscCall' = ProcessCall(inputs, outputs, numFrames, ub, "crash", StartRun(osc))
          /\ UNCHANGED osc
    /\ UNCHANGED <<graphVars, audio, unitVars, build, ctl>>

\* ------------------------------------------ parameters across two threads
\* The field is a std::atomic: SinOsc::frequency of the JACK client.  The
\* fields of Oscillator are plain sample_type members.
IsAtomic(kind, field) == kind = "SinOsc" /\ field = "m_frequency"

\* The control thread starts the store of a setter into a plain field.
storeBegin(field, value) ==
    /\ Alive
    /\ ctl.pc = "idle"
    /\ ~IsAtomic(osc.kind, field)
    /\ osc.kind = "SineOsc"
    /\ ctl' = [pc |-> "writing", field |-> field, value |-> value]
    /\ UNCHANGED <<graphVars, audio, unitVars, osc, build, oscCall>>

\* Oscillator::reset on the control thread: m_phase = 0 starts.
reset == storeBegin("m_phase", 0)

\* The store has reached the field.
storeEnd ==
    /\ Alive
    /\ ctl.pc = "writing"
    /\ osc' = [osc EXCEPT ![ctl.field] = ctl.value]
    /\ ctl' = CtlIdle
    /\ oscRun' = IF oscRun.pc = "loops" /\ ctl.field = "m_phase"
                 THEN [oscRun EXCEPT !.stored = @ \cup {ctl.value}]
                 ELSE oscRun
    /\ UNCHANGED <<graphVars, audio, rateVars, phasorVars, synthVars, build, oscCall>>

\* SinOsc::set_frequency: frequency.store(freq), one indivisible step.
set_frequency(freq) ==
    /\ Alive
    /\ osc.kind = "SinOsc"
    /\ osc' = [osc EXCEPT !.m_frequency = freq]
    /\ UNCHANGED <<graphVars, audio, unitVars, build, oscCall, ctl>>

\* What a load of the field can yield on the audio thread: its value, or,
\* when a store into it is under way (a data race), also the value being
\* stored or a mix of the two.
Observed(field) ==
    IF ctl.pc = "writing" /\ ctl.field = field
    THEN {osc[field], ctl.value} \cup JunkSamples
    ELSE {osc[field]}

\* process on the audio thread while the control thread may be writing:
\* the loads of the phase, the frequency and the amplitude, the loops, the
\* store of the phase.  No lock is taken on either side.
racingProcess(numFrames) ==
    /\ Alive
    /\ oscRun.pc = "idle"
    /\ numFrames > 0
    /\ \E phase \in Observed("m_phase") : \E frequency \in Observed("m_frequency") :
       \E amplitude \in Observed("m_amplitude") :
          LET seen == [osc EXCEPT !.m_phase = phase, !.m_frequency = frequency,
                                  !.m_amplitude = amplitude]
              run == ProcessRun(seen, Inputs(NullOpt, NullOpt, NullOpt), numFrames, 0)
          IN /\ run.phase \in (0 - MaxPhase) .. MaxPhase
             /\ osc' = [osc EXCEPT !.m_phase = run.phase]
             /\ oscCall' = [ProcessCall(Inputs(NullOpt, NullOpt, NullOpt), 1, numFrames, {},
                                        "none", run)
                               EXCEPT !.observed = seen, !.inFlight = ctl]
    /\ UNCHANGED <<graphVars, audio, unitVars, build, ctl>>

\* The top of process on the audio thread: the loads of the phase, the
\* frequency and the amplitude into locals.
processLoad(numFrames) ==
    /\ Alive
    /\ oscRun.pc = "idle"
    /\ numFrames > 0
    /\ \E phase \in Observed("m_phase") : \E frequency \in Observed("m_frequency") :
       \E amplitude \in Observed("m_amplitude") :
          oscRun' = [pc |-> "loops", numFrames |-> numFrames,
                     seen |-> [osc EXCEPT !.m_phase = phase, !.m_frequency = frequency,
                                          !.m_amplitude = amplitude],
                     stored |-> {}]
    /\ UNCHANGED <<graphVars, audio, nodeVars, rateVars, phasorVars, synthVars>>

\* The phase the loops would leave had they started from the field as it
\* is at the end of the block.
PhaseOfField(seen, current, numFrames) ==
    ProcessRun([seen EXCEPT !.m_phase = current.m_phase],
               Inputs(NullOpt, NullOpt, NullOpt), numFrames, 0).phase

\* The phase the loops leave: they work on the locals loaded at the top of
\* process, the field is not read again.
PhaseOfLocals(seen, current, numFrames) ==
    ProcessRun(seen, Inputs(NullOpt, NullOpt, NullOpt), numFrames, 0).phase

\* The end of process on the audio thread: the loops have run on the
\* locals, this->setPhase(phase) stores the phase they left.
processStore ==
    LET run == ProcessRun(oscRun.seen, Inputs(NullOpt, NullOpt, NullOpt), oscRun.numFrames, 0)
        phase == PhaseOfLocals(oscRun.seen, osc, oscRun.numFrames)
    IN
    /\ Alive
    /\ oscRun.pc = "loops"
    /\ phase \in (0 - MaxPhase) .. MaxPhase
    /\ osc' = [osc EXCEPT !.m_phase = phase]
    /\ oscCall' = [ProcessCall(Inputs(NullOpt, NullOpt, NullOpt), 1, oscRun.numFrames, {},
                               "none", run)
                      EXCEPT !.observed = oscRun.seen, !.inFlight = ctl,
                             !.stored = oscRun.stored]
    /\ oscRun' = RunIdle
    /\ UNCHANGED <<graphVars, audio, rateVars, phasorVars, synthVars, build, ctl>>

\* ----------------------------------------------------------- specifications
\* The calls that edit the graph, with arguments from the given sets.
Edits(names, modules, wirings, maxConns) ==
    \/ \E add \in modules : addModule(add[1], add[2]) /\ UNCHANGED <<audio, nodeVars, unitVars>>
    \/ \E name \in names : removeModule(name) /\ UNCHANGED <<audio, nodeVars, unitVars>>
    \/ \E w \in wirings :
          /\ Len(m_connections) < maxConns
          /\ connect(w.fromModule, w.outputIndex, w.toModule, w.inputIndex)
          /\ UNCHANGED <<audio, nodeVars, unitVars>>
    \/ \E w \in wirings :
          /\ disconnect(w.fromModule, w.outputIndex, w.toModule, w.inputIndex)
          /\ UNCHANGED <<audio, nodeVars, unitVars>>

Next == Edits(EditNames, EditModules, EditWirings, MaxConns)

\* Graph construction alone.
Spec == Init /\ [][Next]_vars

NextBlock ==
    \/ Edits(Names, BlockModules, BlockWirings, MaxBlockConns)
    \/ \E numFrames \in FrameCounts : process(numFrames) /\ UNCHANGED <<audio, nodeVars, unitVars>>

\* Graph construction with audio blocks run in between.
SpecProcess == Init /\ [][NextBlock]_vars

\* The graph whose generator b has one output slot or two, and the gain
\* module c that reads either slot.
OutputNames == {"b", "c"}

OutputModules == {<<"b", ConstSource(3)>>, <<"b", TwoOutputs(3)>>, <<"c", GainModule(2)>>}

OutputWirings == {Connection("b", 0, "c", 0), Connection("b", 1, "c", 0)}

NextOutputs ==
    \/ Edits(OutputNames, OutputModules, OutputWirings, MaxBlockConns)
    \/ \E numFrames \in FrameCounts : process(numFrames) /\ UNCHANGED <<audio, nodeVars, unitVars>>

\* Blocks run on a graph with a module of two output slots.
SpecOutputs == Init /\ [][NextOutputs]_vars

\* The graph the two threads work on: a generator a, a gain module c and
\* the connection between them.
ThreadNames == {"a", "c"}

ThreadModules == {<<"a", ConstSource(3)>>, <<"c", GainModule(2)>>}

ThreadWirings == {Connection("a", 0, "c", 0)}

NextThreads ==
    \/ Edits(ThreadNames, ThreadModules, ThreadWirings, MaxBlockConns)
    \/ \E numFrames \in FrameCounts : processBegin(numFrames)
    \/ processModule
    \/ processEnd

\* The control thread edits the graph while the audio thread runs blocks.
SpecThreads == Init /\ [][NextThreads]_vars

\* The nodes whose parameters are called, in a build with asserts and in
\* one with NDEBUG.
ParameterKinds == {"SineOsc", "PulseOsc", "SIMDPulseOsc", "GainModule"}

InitNode(kinds, builds) ==
    /\ GraphInit
    /\ audio = AudioIdle
    /\ osc \in {NewNode(kind) : kind \in kinds}
    /\ build \in builds
    /\ oscCall = NoOscCall
    /\ ctl = CtlIdle
    /\ UnitInit

InitParameters ==
    InitNode(ParameterKinds, {[simd |-> "scalar", ndebug |-> d] : d \in BOOLEAN})

\* The block lengths and pulse-width inputs the pulse oscillators are run
\* with: none, or a buffer that holds the same sample in every frame.
PulseFrameCounts == {1, vectorSize}

PulseWidthMods(numFrames) ==
    {NullOpt} \cup {Buffer([f \in 1 .. numFrames |-> m]) : m \in {0 - One, 1, One}}

NextParameters ==
    \/ \E frequency \in FrequencyValues : setFrequency(frequency)
    \/ \E amplitude \in AmplitudeValues : setAmplitude(amplitude)
    \/ \E pulseWidth \in PulseWidthValues : setPulseWidth(pulseWidth)
    \/ \E name \in ParameterNames : \E value \in ValuesOf(name) : setParameter(name, value)
    \/ \E name \in ParameterNames : getParameter(name)
    \/ \E numFrames \in PulseFrameCounts : \E pwMod \in PulseWidthMods(numFrames) :
          /\ HasPulseWidth(osc.kind)
          /\ nodeProcess(Inputs(NullOpt, NullOpt, pwMod), 1, numFrames)

\* Parameter calls on one node, and blocks run on the pulse oscillators.
SpecParameters == InitParameters /\ [][NextParameters]_vars

\* The sine oscillator of Oscillator.h and the SinOsc of the JACK client,
\* each written by the control thread while the audio thread runs blocks.
RacedFields == {"m_frequency", "m_amplitude", "m_phase"}

RacedValues == {3}

InitRace == InitNode({"SineOsc", "SinOsc"}, {[simd |-> "scalar", ndebug |-> FALSE]})

NextRace ==
    \/ \E field \in RacedFields : \E value \in RacedValues : storeBegin(field, value)
    \/ storeEnd
    \/ \E freq \in RacedValues : set_frequency(freq)
    \/ racingProcess(1)

SpecRace == InitRace /\ [][NextRace]_vars

\* The sine oscillator of Oscillator.h, its phase set and reset by the
\* control thread while the audio thread is inside process.
InitPhaseRace == InitNode({"SineOsc"}, {[simd |-> "scalar", ndebug |-> FALSE]})

NextPhaseRace ==
    \/ \E value \in RacedValues : storeBegin("m_phase", value)
    \/ reset
    \/ storeEnd
    \/ processLoad(1)
    \/ processStore

SpecPhaseRace == InitPhaseRace /\ [][NextPhaseRace]_vars

\* Two sine oscillators of Oscillator.h side by side, prepared and run in
\* any order.
SampleRates == {2, 4, SampleRate}

\* m_sampleRate = sampleRate, by the first prepare alone.
setSampleRateOnce(sampleRate) ==
    IF bankCall.op = "new" THEN sampleRate ELSE m_sampleRate

\* AudioEngine::setSampleRate: m_sampleRate = sampleRate
setSampleRate(sampleRate) == sampleRate

\* Oscillator::prepare on the oscillator called name.
prepare(name, sampleRate) ==
    /\ m_sampleRate' = setSampleRate(sampleRate)
    /\ bankCall' = [NoBankCall EXCEPT !.op = "prepare", !.name = name,
                                      !.sampleRate = sampleRate,
                                      !.prepared = sampleRate, !.preparedOn = name,
                                      !.before = bank]
    /\ UNCHANGED <<graphVars, audio, nodeVars, oscRun, bank, phasorVars, synthVars>>

\* SineOsc::process on the oscillator called name, one output bound and no
\* modulation.
bankProcess(name, numFrames) ==
    LET run == ProcessRun(bank[name], Inputs(NullOpt, NullOpt, NullOpt), numFrames, 0)
    IN  /\ bank' = [bank EXCEPT ![name].m_phase = run.phase]
        /\ bankCall' = [bankCall EXCEPT !.op = "process", !.name = name,
                                        !.sampleRate = m_sampleRate,
                                        !.numFrames = numFrames, !.before = bank]
        /\ UNCHANGED <<graphVars, audio, nodeVars, oscRun, m_sampleRate, phasorVars,
                       synthVars>>

InitSampleRate == InitNode({"SineOsc"}, {[simd |-> "scalar", ndebug |-> FALSE]})

NextSampleRate ==
    \/ \E name \in BankNames : \E sampleRate \in SampleRates : prepare(name, sampleRate)
    \/ \E name \in BankNames : bankProcess(name, 1)

SpecSampleRate == InitSampleRate /\ [][NextSampleRate]_vars

\* The sine oscillator of Oscillator.h in its three builds, and the one
\* derived from SIMDOscillator (which no build flag changes).
InitOscillator ==
    /\ InitNode({"SineOsc", "SIMDSineOsc"},
                {[simd |-> simd, ndebug |-> FALSE] : simd \in {"AVX", "SSE", "scalar"}})
    /\ osc.kind = "SIMDSineOsc" => build.simd = "scalar"

\* Frequencies that advance the phase by less and by more than a turn per
\* frame; phases inside and above [0, 2 pi).
OscillatorFrequencies == {3, 2 * twoPiConstant + 1}

OscillatorPhases == {5, 2 * twoPiConstant + 4}

\* Block lengths below the vector widths 4 and 8, of one group of 8 (two
\* groups of 4) and of two groups of 8.
OscillatorFrameCounts == {0, 1, vectorSize, 2 * vectorSize}

\* The frequency inputs: none, or a ramp that falls from frame to frame.
FrequencyMods(numFrames) == {NullOpt, Buffer([f \in 1 .. numFrames |-> 0 - f])}

AmplitudeMods(numFrames) == {NullOpt, Buffer([f \in 1 .. numFrames |-> 2])}

NextOscillator ==
    \/ \E frequency \in OscillatorFrequencies : setFrequency(frequency)
    \/ setAmplitude(2)
    \/ \E phase \in OscillatorPhases : setPhase(phase)
    \/ \E numFrames \in OscillatorFrameCounts : \E freqMod \in FrequencyMods(numFrames) :
       \E ampMod \in AmplitudeMods(numFrames) :
          nodeProcess(Inputs(freqMod, ampMod, NullOpt), 1, numFrames)
    \/ \E numFrames \in {0, vectorSize} :
          nodeProcess(Inputs(NullOpt, NullOpt, NullOpt), 0, numFrames)

\* Blocks run on one sine oscillator between parameter writes.
SpecOscillator == InitOscillator /\ [][NextOscillator]_vars

\* ------------------------------------------------------------------ Phasor
\* The phases of a Phasor are counted in eighths: 8 stands for 1.0.  The
\* control samples it is fed are whole numbers.
PhasorOne == 8

\* wrap(): internal_type(wrap_arg), with the default wrap_arg = 1 that the
\* table oscillator instantiates.
wrap == 1 * PhasorOne

\* std::fmod(x, y) for y > 0: the remainder has the sign of x.
fmod(x, y) == IF x >= 0 THEN x % y ELSE 0 - ((0 - x) % y)

\* detail::phasorComputeSample: the phase after the step; the sample
\* returned is that phase.
phasorComputeSample(phase, phase_inc, wrapArg) == fmod(phase + phase_inc, wrapArg)

\* What a perform has done so far: the phase it carries and the samples written.
PhasorRun(node) == [phase |-> node.phase_, out |-> <<>>]

\* The increment of frame k: internal_type(*in) * freq_factor with an input
\* buffer, phase_inc_ in the variants without one.
IncrementAt(node, in, k) ==
    IF in.bound THEN ModAt(in, k, 0) * node.freq_factor ELSE node.phase_inc_

\* One sample: *out = computeSample(phase, phase_inc).
PhasorStep(run, node, in, k) ==
    LET phase == phasorComputeSample(run.phase, IncrementAt(node, in, k), wrap)
    IN [phase |-> phase, out |-> Append(run.out, phase)]

RECURSIVE PerformLoop(_, _, _, _, _)
\* while (n > 0) of perform(in, out, n) and perform(out, n), at frame k.
PerformLoop(run, node, in, k, n) ==
    IF n > 0 THEN PerformLoop(PhasorStep(run, node, in, k), node, in, k + 1, n - 1)
    ELSE run

\* perform(in, out, n) and perform(out, n)
Perform(node, in, n) == PerformLoop(PhasorRun(node), node, in, 0, n)

RECURSIVE phasorPerform(_, _, _, _, _)
\* detail::phasorPerform<n>: one sample, then phasorPerform<n - 1> on the
\* next frame.
phasorPerform(n, run, node, in, k) ==
    IF n > 0 THEN phasorPerform(n - 1, PhasorStep(run, node, in, k), node, in, k + 1)
    ELSE run

\* perform<n>(in, out) and perform<n>(out)
PerformFixed(node, in, n) == phasorPerform(n, PhasorRun(node), node, in, 0)

RECURSIVE Perform8Loop(_, _, _, _, _)
\* while (n > 0) of perform8, after n /= 8: phasorPerform<8>, then 8 frames on.
Perform8Loop(run, node, in, k, n) ==
    IF n > 0 THEN Perform8Loop(phasorPerform(8, run, node, in, k), node, in, k + 8, n - 1)
    ELSE run

\* perform8(in, out, n) and perform8(out, n)
Perform8(node, in, n) == Perform8Loop(PhasorRun(node), node, in, 0, n \div 8)

PerformModes == {"perform", "perform8", "perform<n>"}

PerformAs(mode, node, in, n) ==
    IF mode = "perform8" THEN Perform8(node, in, n)
    ELSE IF mode = "perform<n>" THEN PerformFixed(node, in, n)
    ELSE Perform(node, in, n)

\* The table oscillator has not crashed.
PhasorAlive == phasorCall.err # "crash"

\* One of the performs on the phasor: phase_ = phase at its end.
perform(mode, in, n) ==
    LET run == PerformAs(mode, phasor, in, n) IN
    /\ PhasorAlive
    /\ phasor' = [phasor EXCEPT !.phase_ = run.phase]
    /\ phasorCall' = [NoPhasorCall EXCEPT !.op = "perform", !.mode = mode, !.n = n,
                                          !.in = in, !.before = phasor, !.out = run.out]
    /\ UNCHANGED <<graphVars, audio, nodeVars, oscRun, rateVars, synthVars>>

\* A product of two quantities counted in eighths, in eighths.
Times(a, b) == (a * b) \div PhasorOne

PhasorSet(op, value, node) ==
    /\ PhasorAlive
    /\ phasor' = node
    /\ phasorCall' = [NoPhasorCall EXCEPT !.op = op, !.value = value, !.before = phasor]
    /\ UNCHANGED <<graphVars, audio, nodeVars, oscRun, rateVars, synthVars>>

\* Phasor::setFrequency (LookupTableOscillator::setFrequency passes it on)
phasorSetFrequency(new_frequency) ==
    PhasorSet("setFrequency", new_frequency,
              [phasor EXCEPT !.phase_inc_ = Times(new_frequency, wrap)])

\* Phasor::setPhase
phasorSetPhase(new_phase) ==
    PhasorSet("setPhase", new_phase, [phasor EXCEPT !.phase_ = new_phase])

\* Phasor::setInvSamplerate
setInvSamplerate(inv_samplerate) ==
    PhasorSet("setInvSamplerate", inv_samplerate,
              [phasor EXCEPT !.freq_factor = Times(inv_samplerate, wrap)])

\* ------------------------------------------------------ the table oscillator
\* static_cast<int>(x / y): the quotient, cut off towards zero.
Truncated(x, y) == IF x >= 0 THEN x \div y ELSE 0 - ((0 - x) \div y)

\* tableSize<sample_type>
tableSize == 2048

\* idx of interpolate for a phase of the phasor: phase * tableSize / (2.0 *
\* M_PI), with 710 / 113 for 2 pi.
TableIndex(phase) == Truncated(phase * tableSize * 113, PhasorOne * 710)

\* The value of an int in unsigned arithmetic.
Unsigned(x) == x % UIntRange

\* The four indices interpolate reads the table at: idx - 1, idx + 1 and
\* idx + 2 are brought into the table in unsigned arithmetic, idx is used
\* as it is.
Taps(idx) ==
    <<Unsigned(idx - 1 + tableSize) % tableSize, idx,
      Unsigned(idx + 1) % tableSize, Unsigned(idx + 2) % tableSize>>

InTable(index) == 0 <= index /\ index < tableSize

\* LookupTableOscillator::process: m_phasor.perform(input, phaseBuffer,
\* numFrames), then one interpolate per frame.  A read outside the table
\* is undefined: the call goes on with what it finds there, or crashes.
tableProcess(in, numFrames) ==
    LET run == Perform(phasor, in, numFrames)
        indices == [f \in 1 .. numFrames |-> Taps(TableIndex(run.out[f]))]
        ub == IF \E f \in 1 .. numFrames : \E t \in 1 .. 4 : ~InTable(indices[f][t])
              THEN {"read outside the table"} ELSE {}
        call == [NoPhasorCall EXCEPT !.op = "process", !.n = numFrames, !.in = in,
                                     !.before = phasor, !.out = run.out,
                                     !.indices = indices, !.ub = ub]
    IN
    /\ PhasorAlive
    /\ \/ /\ phasor' = [phasor EXCEPT !.phase_ = run.phase]
          /\ phasorCall' = call
       \/ /\ ub # {}
          /\ phasor' = [phasor EXCEPT !.phase_ = run.phase]
          /\ phasorCall' = [call EXCEPT !.err = "crash"]
    /\ UNCHANGED <<graphVars, audio, nodeVars, oscRun, rateVars, synthVars>>

\* The phasor on its own and inside the table oscillator.
InitPhasor == Init

\* Control samples that turn the phase forwards and backwards.
ControlValues == {0 - 3, 1}

ControlInputs(n) == {NullOpt} \cup {Buffer([f \in 1 .. n |-> c]) : c \in ControlValues}

\* Block lengths below 8, at 8 and between 8 and 16.
PhasorFrameCounts == {1, 8, 9}

\* Phases below 0 and inside [0, wrap), in eighths.
PhasorPhases == {0 - 13, 3}

NextPhasor ==
    \/ \E mode \in PerformModes : \E n \in PhasorFrameCounts : \E in \in ControlInputs(n) :
          perform(mode, in, n)
    \/ phasorSetFrequency(3)
    \/ \E new_phase \in PhasorPhases : phasorSetPhase(new_phase)
    \/ setInvSamplerate(1)
    \/ \E n \in PhasorFrameCounts : \E in \in ControlInputs(n) \ {NullOpt} :
          tableProcess(in, n)

SpecPhasor == InitPhasor /\ [][NextPhasor]_vars

\* ---------------------------------------------------------------- SynthDef
\* Longest list of UGen records the model describes.
MaxUGens == 3

\* The types compileUGen knows a builder for.
UGenTypes == {"SineOsc", "SawOsc", "TriangleOsc", "PulseOsc"}

\* A UGen record; its name and its parameters play no part in what follows.
UGenInstance(ugenType) == [ugenType |-> ugenType]

\* SynthDef::addUGen: the record joins m_ugens.
addUGen(ugen) ==
    /\ Len(m_ugens) < MaxUGens
    /\ m_ugens' = Append(m_ugens, ugen)
    /\ UNCHANGED <<graphVars, audio, nodeVars, oscRun, rateVars, phasorVars, compiled>>

\* The module under construction once createMainProcessFunction has run.
MainProcessFunction == [functions |-> <<"process">>, linked |-> <<>>, err |-> "none"]

\* compileUGen(ugen, module): the builder of the type makes a module with
\* the function <type>_process, which is linked into the main module; a
\* type without builder throws.
compileUGen(ugen, module) ==
    IF ugen.ugenType \in UGenTypes
    THEN [module EXCEPT !.functions = Append(@, ugen.ugenType),
                        !.linked = Append(@, ugen)]
    ELSE [module EXCEPT !.err = "Unknown UGen type"]

RECURSIVE CompileUGens(_, _)
\* for (const auto &ugen : synthDef.getUGens()) compileUGen(ugen, module.get());
\* the first throw ends the loop.
CompileUGens(ugens, module) ==
    IF ugens = <<>> \/ module.err # "none" THEN module
    ELSE CompileUGens(Tail(ugens), compileUGen(Head(ugens), module))

\* SynthDefCompiler::compile(synthDef): returns the module, or throws, and
\* the module under construction is destroyed with the frame of the call.
compile ==
    LET module == CompileUGens(m_ugens, MainProcessFunction) IN
    /\ compiled' = [op |-> "compile", ugens |-> m_ugens, err |-> module.err,
                    module |-> IF module.err = "none" THEN module.functions ELSE <<>>,
                    linked |-> module.linked]
    /\ UNCHANGED <<graphVars, audio, nodeVars, oscRun, rateVars, phasorVars, m_ugens>>

\* The types the records of the model name: three with a builder, one without.
DescribedTypes == {"SineOsc", "SawOsc", "PulseOsc", "NoiseOsc"}

\* The types m_ugens names already.
Described == {m_ugens[k].ugenType : k \in 1 .. Len(m_ugens)}

\* Descriptions that name every type at most once, and compiles of them.
NextSynthDef ==
    \/ \E ugenType \in DescribedTypes \ Described : addUGen(UGenInstance(ugenType))
    \/ compile

SpecSynthDef == Init /\ [][NextSynthDef]_vars

\* ------------------------------------------------------------------ claims
RegisteredBefore == DOMAIN lastCall.modulesBefore

\* The modules other than name are the ones they were.
OthersKept(name) ==
    \A n \in RegisteredBefore \ {name} :
        n \in Registered /\ m_modules[n] = lastCall.modulesBefore[n]

GraphUnchanged == m_modules = lastCall.modulesBefore /\ m_connections = lastCall.before

\* How often conn occurs in the list conns.
Occurrences(conns, conn) == Cardinality({k \in 1 .. Len(conns) : conns[k] = conn})

\* The connections of conns other than conn, in their order.
Except(conns, conn) == LET Other(c) == c # conn IN SelectSeq(conns, Other)

\* The connections of conns with neither end at name, in their order.
NotAt(conns, name) ==
    LET Elsewhere(c) == c.fromModule # name /\ c.toModule # name IN SelectSeq(conns, Elsewhere)

\* C4: addModule(name, node) fails with DuplicateName when name is registered,
\* and then leaves the registry and the connection list as they were;
\* otherwise it succeeds and registers that one module under name, leaving
\* the other modules and the connections alone.
C4_AddModule ==
    lastCall.op = "addModule" =>
        IF lastCall.name \in RegisteredBefore
        THEN lastCall.err = "DuplicateName" /\ GraphUnchanged
        ELSE /\ lastCall.err = "none"
             /\ Registered = RegisteredBefore \cup {lastCall.name}
             /\ m_modules[lastCall.name] = lastCall.module
             /\ OthersKept(lastCall.name)
             /\ m_connections = lastCall.before

\* A rejected addModule that offered a module different from the one stored
\* under that name, in a graph that has connections.
C4_Witness ==
    /\ lastCall.op = "addModule"
    /\ lastCall.err = "DuplicateName"
    /\ lastCall.name \in Registered
    /\ m_modules[lastCall.name] # lastCall.module
    /\ m_connections # <<>>

\* C5: removeModule(name) fails with UnknownModule and changes nothing when
\* name is not registered; otherwise the module is gone, the other modules
\* stay, no connection with an end at name remains and the connections with
\* no end at name are all kept, in their order.
C5_RemoveModule ==
    lastCall.op = "removeModule" =>
        IF lastCall.name \notin RegisteredBefore
        THEN lastCall.err = "UnknownModule" /\ GraphUnchanged
        ELSE /\ lastCall.err = "none"
             /\ Registered = RegisteredBefore \ {lastCall.name}
             /\ OthersKept(lastCall.name)
             /\ \A k \in 1 .. Len(m_connections) :
                    /\ m_connections[k].fromModule # lastCall.name
                    /\ m_connections[k].toModule # lastCall.name
             /\ m_connections = NotAt(lastCall.before, lastCall.name)

\* A successful removeModule that dropped a connection from the middle of
\* the list and kept the two different ones around it.
C5_Witness ==
    /\ lastCall.op = "removeModule"
    /\ lastCall.err = "none"
    /\ Len(lastCall.before) = 3
    /\ Len(m_connections) = 2
    /\ m_connections[1] = lastCall.before[1]
    /\ m_connections[2] = lastCall.before[3]
    /\ m_connections[1] # m_connections[2]

\* C6: whatever calls were made, both ends of every stored connection are
\* registered modules.
C6_EndpointsRegistered ==
    \A k \in 1 .. Len(m_connections) :
        /\ m_connections[k].fromModule \in Registered
        /\ m_connections[k].toModule \in Registered

\* A module with connections has just been removed and a connection between
\* the remaining modules is still stored.
C6_Witness ==
    /\ lastCall.op = "removeModule"
    /\ lastCall.err = "none"
    /\ Len(lastCall.before) > Len(m_connections)
    /\ m_connections # <<>>
    /\ Registered # {}

\* C7: connect fails with UnknownModule when its source or its destination
\* is not registered, and then adds no connection and changes no module.
C7_ConnectUnknown ==
    (/\ lastCall.op = "connect"
     /\ \/ lastCall.conn.fromModule \notin RegisteredBefore
        \/ lastCall.conn.toModule \notin RegisteredBefore)
    => lastCall.err = "UnknownModule" /\ GraphUnchanged

\* A connect rejected because only its destination is unknown, in a graph
\* that has a connection.
C7_Witness ==
    /\ lastCall.op = "connect"
    /\ lastCall.err = "UnknownModule"
    /\ lastCall.conn.fromModule \in Registered
    /\ lastCall.conn.toModule \notin Registered
    /\ m_connections # <<>>

\* C9: connect(x,o,y,i) immediately followed by disconnect(x,o,y,i) leaves
\* the connection list exactly as it was before the connect.
C9_ConnectDisconnectRestores ==
    [][(/\ lastCall.op = "connect"
        /\ lastCall.err = "none"
        /\ lastCall'.op = "disconnect"
        /\ lastCall'.conn = lastCall.conn)
       => m_connections' = lastCall.before]_vars

\* C10: disconnect never fails and changes no module; when no connection
\* with exactly its tuple is stored (the names may be unknown) the list
\* stays as it is, otherwise one connection with that tuple goes and the
\* connections with another tuple all stay, in their order.
C10_Disconnect ==
    lastCall.op = "disconnect" =>
        /\ lastCall.err = "none"
        /\ m_modules = lastCall.modulesBefore
        /\ IF Occurrences(lastCall.before, lastCall.conn) = 0
           THEN m_connections = lastCall.before
           ELSE /\ Len(m_connections) = Len(lastCall.before) - 1
                /\ Occurrences(m_connections, lastCall.conn)
                     = Occurrences(lastCall.before, lastCall.conn) - 1
                /\ Except(m_connections, lastCall.conn)
                     = Except(lastCall.before, lastCall.conn)

\* A disconnect that took a connection from behind another one with a
\* different tuple, which is still stored.
C10_Witness ==
    /\ lastCall.op = "disconnect"
    /\ Len(lastCall.before) = Len(m_connections) + 1
    /\ m_connections # <<>>
    /\ lastCall.before[1] # lastCall.conn
    /\ m_connections[1] = lastCall.before[1]

\* ------------------------------------------------- claims on process
\* There is a connection from module p to module c.
Edge(p, c) ==
    \E k \in 1 .. Len(m_connections) :
        m_connections[k].fromModule = p /\ m_connections[k].toModule = c

RECURSIVE PathWithin(_, _, _)
\* There is a path of at most n connections from p to c.
PathWithin(p, c, n) ==
    /\ n > 0
    /\ \/ Edge(p, c)
       \/ \E m \in Names : Edge(p, m) /\ PathWithin(m, c, n - 1)

HasCycle == \E n \in Names : PathWithin(n, n, Cardinality(Names))

\* The latest call was a block that ran to its end on defined behaviour.
BlockDone == lastCall.op = "process" /\ lastCall.err = "none" /\ lastCall.ub = {}

\* Position of name's process call among the calls of the block.
CalledAt(name) == CHOOSE i \in 1 .. Len(callLog) : callLog[i].name = name

\* The modules connected to input slot `slot` of module `name`.
Producers(name, slot) ==
    {m_connections[k].fromModule : k \in
        {j \in 1 .. Len(m_connections) :
            m_connections[j].toModule = name /\ m_connections[j].inputIndex = slot}}

RECURSIVE SumOfValues(_)
SumOfValues(S) ==
    IF S = {} THEN 0
    ELSE LET n == CHOOSE x \in S : TRUE IN m_modules[n].value + SumOfValues(S \ {n})

\* C1: in a block on an acyclic graph, for every connection from a module
\* to a different module the producer's process call comes before the
\* consumer's.
C1_TopologicalOrder ==
    (BlockDone /\ ~HasCycle) =>
        \A k \in 1 .. Len(m_connections) :
            m_connections[k].fromModule # m_connections[k].toModule
            => CalledAt(m_connections[k].fromModule) < CalledAt(m_connections[k].toModule)

\* C2: a module whose input slot is fed by generators, all called before it
\* in the block, receives on that slot, at every frame, the sum of what
\* those generators emit.
C2_InputsSummed ==
    BlockDone =>
        \A i \in 1 .. Len(callLog) : \A s \in 1 .. Len(callLog[i].received) :
            LET from == Producers(callLog[i].name, s - 1) IN
            (/\ from # {}
             /\ \A p \in from : m_modules[p].kind = "Source" /\ CalledAt(p) < i)
            => /\ callLog[i].received[s].bound
               /\ \A f \in 1 .. lastCall.numFrames :
                      callLog[i].received[s].samples[f] = SumOfValues(from)

\* C3: a block on a graph whose connections contain a cycle fails with
\* GraphCycleError and calls no module.
C3_CycleRejected ==
    (lastCall.op = "process" /\ lastCall.ub = {} /\ HasCycle)
    => (lastCall.err = "GraphCycleError" /\ callLog = <<>>)

\* The connection's indices are below the declared counts of its modules.
InRange(conn) ==
    /\ conn.outputIndex < getNumOutputs(m_modules[conn.fromModule])
    /\ conn.inputIndex < getNumInputs(m_modules[conn.toModule])

\* C8: connect between registered modules fails with IndexOutOfRange when
\* an index is not below the declared count, no stored connection has such
\* an index, and no block addresses an input slot at or beyond
\* getNumInputs().
C8_IndicesInRange ==
    /\ (/\ lastCall.op = "connect"
        /\ lastCall.conn.fromModule \in Registered
        /\ lastCall.conn.toModule \in Registered
        /\ ~InRange(lastCall.conn))
       => lastCall.err = "IndexOutOfRange"
    /\ \A k \in 1 .. Len(m_connections) :
          (m_connections[k].fromModule \in Registered /\ m_connections[k].toModule \in Registered)
          => InRange(m_connections[k])
    /\ lastCall.op = "process" => "out-of-range slot" \notin lastCall.ub

\* C11: after a block of at least one frame, a gain module whose input slot
\* 0 is fed by one generator holds, at every frame, what that generator
\* emits in this block times its gain (0.3 * 2 = 0.6 here, for 0.5 * 2.0 =
\* 1.0), already on the first block.
C11_SameBlockFreshness ==
    (BlockDone /\ lastCall.numFrames > 0) =>
        \A k \in 1 .. Len(m_connections) :
            LET from == m_connections[k].fromModule
                to == m_connections[k].toModule
            IN (/\ m_modules[from].kind = "Source"
                /\ m_modules[to].kind = "Gain"
                /\ m_connections[k].inputIndex = 0
                /\ Producers(to, 0) = {from})
               => \A f \in 1 .. lastCall.numFrames :
                      m_audioBuffers[BufferIndex(to)][f]
                          = m_modules[from].value * m_modules[to].gain

\* The number of buffers and the length of each, as process left them.
BufferSizes(bufs) == [k \in 1 .. Len(bufs) |-> Len(bufs[k])]

\* C12: a block leaves the number of audio buffers and the length of every
\* buffer as they were before it started.
C12_ProcessNeverResizes ==
    [][(lastCall'.op = "process" /\ lastCall'.err = "none")
       => BufferSizes(m_audioBuffers') = BufferSizes(m_audioBuffers)]_vars

\* C13: while the audio thread is inside process, the registry and the
\* connection list are the ones the block started with: every edit of the
\* control thread takes effect before a block starts or after it ends.
C13_EditsBetweenBlocks ==
    audio.pc = "loop" =>
        /\ m_modules = audio.modulesAtStart
        /\ m_connections = audio.connectionsAtStart

\* -------------------------------------------------- claims on parameters
\* The latest call wrote (directly or by name) the parameter `name`.
Wrote(setter, name) ==
    \/ oscCall.op = setter
    \/ oscCall.op = "setParameter" /\ oscCall.name = name

\* C15: on every kind of node, setParameter and getParameter with a name
\* that is not among getParameterNames() fail with InvalidParameter and
\* leave the node as it was.
C15_UnknownParameter ==
    (/\ oscCall.op \in {"setParameter", "getParameter"}
     /\ oscCall.name \notin getParameterNames(oscCall.before.kind))
    => (oscCall.err = "InvalidParameter" /\ osc = oscCall.before)

\* C16: writing a frequency <= 0 or an amplitude < 0 to an oscillator fails
\* with InvalidParameter and leaves the stored value as it was, so that
\* every oscillator has frequency > 0 and amplitude >= 0 at all times.
C16_DomainRejected ==
    /\ (/\ Wrote("setFrequency", "frequency")
        /\ IsOscillator(oscCall.before.kind)
        /\ oscCall.value <= 0)
       => (oscCall.err = "InvalidParameter"
           /\ osc.m_frequency = oscCall.before.m_frequency)
    /\ (/\ Wrote("setAmplitude", "amplitude")
        /\ IsOscillator(oscCall.before.kind)
        /\ oscCall.value < 0)
       => (oscCall.err = "InvalidParameter"
           /\ osc.m_amplitude = oscCall.before.m_amplitude)
    /\ IsOscillator(osc.kind) => (osc.m_frequency > 0 /\ osc.m_amplitude >= 0)

\* v brought into [0, 1]: 0 below, 1 above, v itself between.
IntoUnitRange(v) == IF v < 0 THEN 0 ELSE IF v > One THEN One ELSE v

\* C17: the pulse width of a pulse oscillator is in [0, 1] at all times;
\* setPulseWidth(v) and setParameter("pulseWidth", v) store v brought
\* into [0, 1]; getParameter("pulseWidth") returns the stored width; every
\* width a block uses, with or without a pulse-width input, is in [0, 1].
C17_PulseWidthClamped ==
    HasPulseWidth(osc.kind) =>
        /\ osc.m_pulseWidth \in 0 .. One
        /\ Wrote("setPulseWidth", "pulseWidth")
           => (oscCall.err = "none" /\ osc.m_pulseWidth = IntoUnitRange(oscCall.value))
        /\ (oscCall.op = "getParameter" /\ oscCall.name = "pulseWidth")
           => (oscCall.err = "none" /\ oscCall.result = osc.m_pulseWidth)
        /\ oscCall.op = "process"
           => \A k \in 1 .. Len(oscCall.widths) : oscCall.widths[k] \in 0 .. One

\* A block on a pulse oscillator whose width had been written above 1 and
\* stored as 1, with a pulse-width input that pushes it further up: the
\* block ran to its end and used the width 1 in every frame.
C17_Witness ==
    /\ osc.kind = "PulseOsc"
    /\ oscCall.op = "process"
    /\ oscCall.err = "none"
    /\ oscCall.inputs.pwMod.bound
    /\ osc.m_pulseWidth = One
    /\ Len(oscCall.widths) = oscCall.numFrames
    /\ \A k \in 1 .. oscCall.numFrames :
          /\ osc.m_pulseWidth + oscCall.inputs.pwMod.samples[k] > One
          /\ oscCall.widths[k] = One

\* C14: every parameter the audio thread reads in a block while the
\* control thread writes it is seen with its old or with its new value.
C14_NoTornParameter ==
    oscCall.op = "process" =>
        \A field \in RacedFields :
            \/ oscCall.observed[field] = oscCall.before[field]
            \/ /\ oscCall.inFlight.pc = "writing"
               /\ oscCall.inFlight.field = field
               /\ oscCall.observed[field] = oscCall.inFlight.value

\* ------------------------------------------------- claims on oscillators
\* The latest call was a block that ran to its end on defined behaviour.
OscillatorBlockDone == oscCall.op = "process" /\ oscCall.err = "none" /\ oscCall.ub = {}

Normalized(phase) == 0 <= phase /\ phase < twoPiConstant

Unmodulated == ~oscCall.inputs.freqMod.bound /\ ~oscCall.inputs.ampMod.bound

\* C18: after a block, the stored phase and every phase stored during the
\* block are in [0, 2 pi), whatever the frequency, the frequency input and
\* the phase written with setPhase before.
C18_PhaseNormalized ==
    OscillatorBlockDone =>
        /\ Normalized(osc.m_phase)
        /\ \A k \in 1 .. Len(oscCall.phases) : Normalized(oscCall.phases[k])

\* C19: a block of N frames without modulation inputs, started at a phase
\* in [0, 2 pi) with an increment of less than a turn, leaves the phase
\* (initial + N * increment) mod 2 pi.
C19_PhaseAdvance ==
    (/\ OscillatorBlockDone
     /\ Unmodulated
     /\ Normalized(oscCall.before.m_phase)
     /\ Normalized(PhaseIncrement(oscCall.before.m_frequency)))
    => osc.m_phase
         = (oscCall.before.m_phase
              + oscCall.numFrames * PhaseIncrement(oscCall.before.m_frequency))
           % twoPiConstant

\* C20: a block leaves the samples and the phase that the scalar loop
\* leaves for the same phase, frequency, amplitude, inputs and numFrames.
C20_ScalarVectorAgree ==
    OscillatorBlockDone =>
        LET scalar == processScalar(StartRun(oscCall.before), oscCall.before,
                                    oscCall.inputs, oscCall.numFrames)
        IN /\ oscCall.output = scalar.output
           /\ osc.m_phase = scalar.phase

\* C21: perform(in, out, n), perform8(in, out, n) and perform<n>(in, out),
\* and their variants without input, write the same n phases and leave the
\* same stored phase for the same starting phase and inputs, for every n.
C21_ModesAgree ==
    phasorCall.op = "perform" =>
        LET run == Perform(phasorCall.before, phasorCall.in, phasorCall.n)
        IN /\ phasorCall.out = run.out
           /\ Len(phasorCall.out) = phasorCall.n
           /\ phasor.phase_ = run.phase

InWrap(phase) == 0 <= phase /\ phase < wrap

\* C22: after every step of the phasor the stored phase and the emitted
\* sample are >= 0 and < wrap, for every control input and every phase
\* stored with setPhase.
C22_PhasorInRange ==
    phasorCall.op = "perform" /\ phasorCall.n > 0 =>
        /\ InWrap(phasor.phase_)
        /\ \A f \in 1 .. Len(phasorCall.out) : InWrap(phasorCall.out[f])

\* C27: the table oscillator reads its table only at indices in
\* [0, tableSize), at all four taps, for every phase its phasor produces.
C27_TableIndexInRange ==
    phasorCall.op = "process" =>
        \A f \in 1 .. Len(phasorCall.indices) : \A t \in 1 .. 4 :
            InTable(phasorCall.indices[f][t])

\* C23: during process the frequency used at frame i is baseFrequency +
\* freqMod[i] and the amplitude used at frame i is baseAmplitude * ampMod[i]
\* when those inputs are bound: the modulation of a frame depends on the
\* modulation sample of that frame only, nothing is carried over from
\* earlier frames or earlier groups of lanes.
C23_ModulationPerFrame ==
    OscillatorBlockDone =>
        /\ Len(oscCall.freqs) = oscCall.numFrames
        /\ Len(oscCall.amps) = oscCall.numFrames
        /\ \A i \in 0 .. oscCall.numFrames - 1 :
              /\ oscCall.freqs[i + 1]
                    = oscCall.before.m_frequency
                        + (IF oscCall.inputs.freqMod.bound
                           THEN oscCall.inputs.freqMod.samples[i + 1] ELSE 0)
              /\ oscCall.amps[i + 1]
                    = oscCall.before.m_amplitude
                        * (IF oscCall.inputs.ampMod.bound
                           THEN oscCall.inputs.ampMod.samples[i + 1] ELSE 1)

\* C28: for every numFrames >= 1 process writes exactly the output indices
\* 0 .. numFrames - 1 and reads each bound modulation input only below
\* numFrames, also for numFrames below the vector width and for numFrames
\* that is not a multiple of it.
C28_StaysInsideBuffers ==
    (oscCall.op = "process" /\ oscCall.numFrames >= 1) =>
        /\ oscCall.ub = {}
        /\ Len(oscCall.output) = oscCall.numFrames
        /\ oscCall.err = "none"

\* C25: process is a no-op when numFrames = 0 or when no output buffer is
\* bound: it writes no sample and leaves phase, frequency and amplitude as
\* they were.
C25_NothingToDo ==
    (oscCall.op = "process" /\ (oscCall.numFrames = 0 \/ oscCall.outputs = 0)) =>
        /\ oscCall.output = <<>>
        /\ osc = oscCall.before
        /\ oscCall.err = "none"

\* A block of 8 frames asked of an oscillator that was handed no buffer,
\* at a phase and a frequency that a block would have moved on from.
C25_Witness ==
    /\ oscCall.op = "process"
    /\ oscCall.outputs = 0
    /\ oscCall.numFrames = vectorSize
    /\ osc.m_phase = 5
    /\ osc.m_frequency = 3

\* C24: a graph description is validated in full before any state is
\* mutated: if any record has an unknown ugenType the build fails with the
\* unknown-type error and nothing of the description has been applied, no
\* earlier record of it has been built or linked.
C24_ValidatedBeforeBuilt ==
    (/\ compiled.op = "compile"
     /\ \E k \in 1 .. Len(compiled.ugens) : compiled.ugens[k].ugenType \notin UGenTypes)
    => /\ compiled.err = "Unknown UGen type"
       /\ compiled.module = <<>>
       /\ compiled.linked = <<>>

\* C26: after process(numFrames) has returned, every module's output buffer
\* holds the samples this module produced in that block, on each of its
\* output slots, also when modules were added or removed between blocks.
C26_BuffersHoldOwnSamples ==
    BlockDone =>
        \A k \in 1 .. Len(callLog) : \A slot \in 1 .. Len(callLog[k].produced) :
            m_audioBuffers[BufferIndex(callLog[k].name)] = callLog[k].produced[slot]

\* C29: process reads the stored phase once at the start of the block and
\* writes the block's final phase back at the end: a setPhase or reset of
\* another thread between the two is overwritten, the phase stored after
\* the block is the one computed from the phase read at the start.
C29_PhaseWriteOverwritten ==
    [][(oscRun.pc = "loops" /\ oscRun'.pc = "idle")
          => osc'.m_phase
               = ProcessRun(oscRun.seen, Inputs(NullOpt, NullOpt, NullOpt),
                            oscRun.numFrames, 0).phase]_vars

\* A block has ended during which the control thread stored a phase, and
\* the phase of the oscillator is not one that was stored.
C29_Witness ==
    /\ oscCall.op = "process"
    /\ oscCall.stored # {}
    /\ osc.m_phase \notin oscCall.stored
    /\ osc.m_phase = wrapPhaseScalar(oscCall.observed.m_phase
                                       + PhaseIncrement(oscCall.observed.m_frequency))

\* C30: the sample rate is one value of the whole process, shared by all
\* oscillators: a process call on any oscillator runs at the rate of the
\* most recent prepare, whichever oscillator that prepare was called on, and
\* advances the phase by the increment of that rate.
C30_OneSampleRate ==
    /\ m_sampleRate = bankCall.prepared
    /\ bankCall.op = "process"
          => /\ bankCall.sampleRate = bankCall.prepared
             /\ bank[bankCall.name].m_phase
                  = wrapPhaseScalar(bankCall.before[bankCall.name].m_phase
                                      + (bankCall.before[bankCall.name].m_frequency
                                           * twoPiConstant) \div bankCall.prepared)

\* A block on one oscillator after a prepare on the other that changed the
\* rate.
C30_Witness ==
    /\ bankCall.op = "process"
    /\ bankCall.preparedOn \in BankNames \ {bankCall.name}
    /\ bankCall.prepared # SampleRate
    /\ bankCall.sampleRate = bankCall.prepared
    /\ bank[bankCall.name].m_phase # bankCall.before[bankCall.name].m_phase
====
